---- MODULE Spec2Model ----
(***************************************************************************)
(* Runtime CPU-capability detection and kernel dispatch of BLAKE3          *)
(* (c/blake3_dispatch.c).                                                  *)
(*                                                                         *)
(* Registers (CPUID results, XCR0) are modelled as the set of the bit      *)
(* positions that are set, so that "x & (1 << n)" is "n \in x" and         *)
(* "(x & m) == m" is "bits of m are a subset of x".  The feature word      *)
(* (enum cpu_feature, a bit mask) is the set of the names of its set bits; *)
(* UNDEFINED is the word whose only set bit is the sentinel bit.           *)
(* 64-bit counters are four 16-bit limbs, least significant first.         *)
(***************************************************************************)
EXTENDS Integers, Sequences, FiniteSets, TLC

VARIABLES
    hw,                     \* what CPUID / XGETBV answer on this host (fixed)
    build,                  \* the preprocessor configuration (fixed)
    g_blake3_cpu_features,  \* the process-wide cache
    thr,                    \* per thread: position, locals, kernel calls made
    callable,               \* the public functions the caller uses (fixed)
    probe_runs,             \* how many times the probe body has run
    undef_loads             \* how many loads of the cache observed UNDEFINED

vars == <<hw, build, g_blake3_cpu_features, thr, callable, probe_runs,
          undef_loads>>

(***************************************************************************)
(* Bounds of the model.                                                    *)
(***************************************************************************)
NThreads == 2
MaxCalls == 2
MaxBlocks == 3

Threads == 1..NThreads

(***************************************************************************)
(* enum cpu_feature                                                        *)
(***************************************************************************)
SSE2 == "SSE2"
SSSE3 == "SSSE3"
SSE41 == "SSE41"
AVX == "AVX"
AVX2 == "AVX2"
AVX512F == "AVX512F"
AVX512VL == "AVX512VL"

FeatureBits == {SSE2, SSSE3, SSE41, AVX, AVX2, AVX512F, AVX512VL}

UNDEFINED == {"UNDEFINED"}

(***************************************************************************)
(* Bit helpers.                                                            *)
(***************************************************************************)
\* x & (1UL << n)
Bit(x, n) == n \in x

\* the set bits of a small literal mask such as 6 or 224
BitsOf(m) == {n \in 0..15 : (m \div (2 ^ n)) % 2 = 1}

\* (x & m) == m
MaskEq(x, m) == BitsOf(m) \subseteq x

(***************************************************************************)
(* The hardware: xgetbv, cpuid, cpuidex.                                   *)
(***************************************************************************)
xgetbv(h) == h.xcr0

cpuid(h, id) ==
    IF id = 0 THEN [eax |-> h.max_leaf, ebx |-> {}, ecx |-> {}, edx |-> {}]
    ELSE [eax |-> 0, ebx |-> {}, ecx |-> h.leaf1_ecx, edx |-> h.leaf1_edx]

cpuidex(h, id, sid) ==
    [eax |-> 0, ebx |-> h.leaf7_ebx, ecx |-> {}, edx |-> {}]

(***************************************************************************)
(* The probe: the else-branch of blake3_get_cpu_features.                  *)
(***************************************************************************)
ProbeSSE2(h, b) ==
    IF b.AMD64 THEN {SSE2}
    ELSE IF Bit(cpuid(h, 1).edx, 26) THEN {SSE2} ELSE {}

\* a probe that consults the AVX-512 bits without testing XCR0 bits 5..7
ProbeLeaf7NoZmmTest(h, mask) ==
    LET ebx == cpuidex(h, 7, 0).ebx
    IN  (IF Bit(ebx, 5) THEN {AVX2} ELSE {})
        \cup (IF Bit(ebx, 31) THEN {AVX512VL} ELSE {})
        \cup (IF Bit(ebx, 16) THEN {AVX512F} ELSE {})

ProbeLeaf7(h, mask) ==
    LET ebx == cpuidex(h, 7, 0).ebx
    IN  (IF Bit(ebx, 5) THEN {AVX2} ELSE {})
        \cup (IF MaskEq(mask, 224)
              THEN (IF Bit(ebx, 31) THEN {AVX512VL} ELSE {})
                   \cup (IF Bit(ebx, 16) THEN {AVX512F} ELSE {})
              ELSE {})

\* a probe that reads XCR0 without testing OSXSAVE first
ProbeExtendedNoOsxsave(h) ==
    LET max_id == cpuid(h, 0).eax
        ecx == cpuid(h, 1).ecx
        mask == xgetbv(h)
    IN  IF MaskEq(mask, 6)
        THEN (IF Bit(ecx, 28) THEN {AVX} ELSE {})
             \cup (IF max_id >= 7 THEN ProbeLeaf7(h, mask) ELSE {})
        ELSE {}

ProbeExtended(h) ==
    LET max_id == cpuid(h, 0).eax
        ecx == cpuid(h, 1).ecx
    IN  IF Bit(ecx, 27)
        THEN LET mask == xgetbv(h)
             IN  IF MaskEq(mask, 6)
                 THEN (IF Bit(ecx, 28) THEN {AVX} ELSE {})
                      \cup (IF max_id >= 7 THEN ProbeLeaf7(h, mask) ELSE {})
                 ELSE {}
        ELSE {}

cpu_probe(h, b) ==
    LET ecx == cpuid(h, 1).ecx
    IN  ProbeSSE2(h, b)
        \cup (IF Bit(ecx, 9) THEN {SSSE3} ELSE {})
        \cup (IF Bit(ecx, 19) THEN {SSE41} ELSE {})
        \cup ProbeExtended(h)

(***************************************************************************)
(* Kernel selection of the four operations and of blake3_simd_degree.      *)
(***************************************************************************)
blake3_compress_in_place_kernel(features, b) ==
    IF b.IS_X86 /\ ~b.NO_AVX512 /\ AVX512VL \in features
        THEN "blake3_compress_in_place_avx512"
    ELSE IF b.IS_X86 /\ ~b.NO_SSE41 /\ SSE41 \in features
        THEN "blake3_compress_in_place_sse41"
    ELSE IF b.IS_X86 /\ ~b.NO_SSE2 /\ SSE2 \in features
        THEN "blake3_compress_in_place_sse2"
    ELSE "blake3_compress_in_place_portable"

\* a chain that asks for AVX512F as well, as blake3_hash_many does
compress_xof_kernel_needs_avx512f(features, b) ==
    IF b.IS_X86 /\ ~b.NO_AVX512 /\ {AVX512F, AVX512VL} \subseteq features
        THEN "blake3_compress_xof_avx512"
    ELSE IF b.IS_X86 /\ ~b.NO_SSE41 /\ SSE41 \in features
        THEN "blake3_compress_xof_sse41"
    ELSE IF b.IS_X86 /\ ~b.NO_SSE2 /\ SSE2 \in features
        THEN "blake3_compress_xof_sse2"
    ELSE "blake3_compress_xof_portable"

blake3_compress_xof_kernel(features, b) ==
    IF b.IS_X86 /\ ~b.NO_AVX512 /\ AVX512VL \in features
        THEN "blake3_compress_xof_avx512"
    ELSE IF b.IS_X86 /\ ~b.NO_SSE41 /\ SSE41 \in features
        THEN "blake3_compress_xof_sse41"
    ELSE IF b.IS_X86 /\ ~b.NO_SSE2 /\ SSE2 \in features
        THEN "blake3_compress_xof_sse2"
    ELSE "blake3_compress_xof_portable"

\* whether blake3_xof_many hands the whole request to blake3_xof_many_avx512
blake3_xof_many_delegates(features, b) ==
    b.IS_X86 /\ ~b.WIN32 /\ ~b.NO_AVX512 /\ AVX512VL \in features

\* a chain whose AVX2 branch is not guarded by BLAKE3_NO_AVX2
hash_many_kernel_unguarded_avx2(features, b) ==
    IF b.IS_X86 /\ ~b.NO_AVX512 /\ {AVX512F, AVX512VL} \subseteq features
        THEN "blake3_hash_many_avx512"
    ELSE IF b.IS_X86 /\ AVX2 \in features
        THEN "blake3_hash_many_avx2"
    ELSE IF b.IS_X86 /\ ~b.NO_SSE41 /\ SSE41 \in features
        THEN "blake3_hash_many_sse41"
    ELSE IF b.IS_X86 /\ ~b.NO_SSE2 /\ SSE2 \in features
        THEN "blake3_hash_many_sse2"
    ELSE IF b.USE_NEON
        THEN "blake3_hash_many_neon"
    ELSE "blake3_hash_many_portable"

blake3_hash_many_kernel(features, b) ==
    IF b.IS_X86 /\ ~b.NO_AVX512 /\ {AVX512F, AVX512VL} \subseteq features
        THEN "blake3_hash_many_avx512"
    ELSE IF b.IS_X86 /\ ~b.NO_AVX2 /\ AVX2 \in features
        THEN "blake3_hash_many_avx2"
    ELSE IF b.IS_X86 /\ ~b.NO_SSE41 /\ SSE41 \in features
        THEN "blake3_hash_many_sse41"
    ELSE IF b.IS_X86 /\ ~b.NO_SSE2 /\ SSE2 \in features
        THEN "blake3_hash_many_sse2"
    ELSE IF b.USE_NEON
        THEN "blake3_hash_many_neon"
    ELSE "blake3_hash_many_portable"

\* a degree that tests AVX512VL alone, as the single-block chains do
simd_degree_avx512vl_only(features, b) ==
    IF b.IS_X86 /\ ~b.NO_AVX512 /\ AVX512VL \in features
        THEN 16
    ELSE IF b.IS_X86 /\ ~b.NO_AVX2 /\ AVX2 \in features
        THEN 8
    ELSE IF b.IS_X86 /\ ~b.NO_SSE41 /\ SSE41 \in features
        THEN 4
    ELSE IF b.IS_X86 /\ ~b.NO_SSE2 /\ SSE2 \in features
        THEN 4
    ELSE IF b.USE_NEON
        THEN 4
    ELSE 1

blake3_simd_degree(features, b) ==
    IF b.IS_X86 /\ ~b.NO_AVX512 /\ {AVX512F, AVX512VL} \subseteq features
        THEN 16
    ELSE IF b.IS_X86 /\ ~b.NO_AVX2 /\ AVX2 \in features
        THEN 8
    ELSE IF b.IS_X86 /\ ~b.NO_SSE41 /\ SSE41 \in features
        THEN 4
    ELSE IF b.IS_X86 /\ ~b.NO_SSE2 /\ SSE2 \in features
        THEN 4
    ELSE IF b.USE_NEON
        THEN 4
    ELSE 1

(***************************************************************************)
(* Arguments, kernel invocations and output blocks.                        *)
(***************************************************************************)
Word16 == 2 ^ 16

\* counter + i on uint64_t
Add64(c, n) ==
    LET s1 == c[1] + n
        s2 == c[2] + (s1 \div Word16)
        s3 == c[3] + (s2 \div Word16)
        s4 == c[4] + (s3 \div Word16)
    IN  <<s1 % Word16, s2 % Word16, s3 % Word16, s4 % Word16>>

Zero64 == <<0, 0, 0, 0>>

NoInput == [cv |-> "none", block |-> "none", block_len |-> 0, flags |-> 0]

\* one call of a kernel: which one, and the arguments it was handed
KernelCall(kernel, in, counter, out_off, outblocks) ==
    [kernel |-> kernel, in |-> in, counter |-> counter,
     out_off |-> out_off, outblocks |-> outblocks]

\* the 64 bytes a kernel leaves in one output block: block idx of the request
\* (in, counter) as computed by that kernel
OutBlock(kernel, in, counter, idx) ==
    [kernel |-> kernel, in |-> in, counter |-> counter, idx |-> idx]

Unwritten == OutBlock("none", NoInput, Zero64, 0)

OutIndex == 0..(MaxBlocks - 1)

NotLoaded == {"NOT_LOADED"}

Ops == {"blake3_get_cpu_features", "blake3_compress_in_place",
        "blake3_compress_xof", "blake3_xof_many", "blake3_hash_many",
        "blake3_simd_degree"}

\* a thread that is not inside any call
IdleThread(budget, a) ==
    [pc |-> "idle", op |-> "none", inner |-> FALSE,
     get_features |-> UNDEFINED, features |-> {}, xof_features |-> {},
     i |-> 0, xof_counter |-> Zero64, xof_out |-> 0,
     calls |-> <<>>, out |-> [j \in OutIndex |-> Unwritten],
     ret_features |-> NotLoaded, ret_degree |-> 0,
     budget |-> budget, args |-> a,
     loaded |-> NotLoaded, probed |-> FALSE, stored |-> FALSE,
     cache_at_call |-> NotLoaded]

(***************************************************************************)
(* The steps of a thread.                                                  *)
(***************************************************************************)
\* an entry without the outblocks = 0 test
CallTargetNoZeroTest(o, a, b) == IF b.IS_X86 THEN "load" ELSE "dispatch"

\* A thread enters one of the public functions, its previous call (if any)
\* having returned.  blake3_xof_many returns at once when outblocks = 0; on
\* x86 every other path begins with blake3_get_cpu_features; elsewhere the
\* function goes straight to its kernel.
CallTarget(o, a, b) ==
    IF o = "blake3_xof_many" /\ a.outblocks = 0 THEN "done"
    ELSE IF b.IS_X86 THEN "load"
    ELSE "dispatch"

Call(t, o) ==
    /\ thr[t].pc \in {"idle", "done"}
    /\ thr[t].budget > 0
    /\ o \in callable
    /\ o = "blake3_get_cpu_features" => build.IS_X86
    /\ thr' = [thr EXCEPT ![t] =
                 [IdleThread(thr[t].budget - 1, thr[t].args)
                    EXCEPT !.pc = CallTarget(o, thr[t].args, build),
                           !.op = o,
                           !.xof_counter = thr[t].args.counter,
                           !.xof_out = 0,
                           !.cache_at_call = g_blake3_cpu_features]]
    /\ UNCHANGED <<hw, build, callable, g_blake3_cpu_features, probe_runs,
                   undef_loads>>

\* a test of the loaded value with the branches exchanged
LoadTargetInverted(features) ==
    IF features = UNDEFINED THEN "dispatch" ELSE "probe"

\* a call that probes whatever it loaded
LoadTargetAlwaysProbe(features) == "probe"

\* blake3_get_cpu_features: the load of the cache and the test of it
LoadTarget(features) == IF features # UNDEFINED THEN "dispatch" ELSE "probe"

Load(t) ==
    /\ thr[t].pc = "load"
    /\ LET features == g_blake3_cpu_features
       IN  /\ thr' = [thr EXCEPT ![t] =
                        [@ EXCEPT !.pc = LoadTarget(features),
                                  !.get_features = features,
                                  !.features = features,
                                  !.loaded = features,
                                  !.probed = FALSE,
                                  !.stored = FALSE]]
           /\ undef_loads' = IF features = UNDEFINED
                             THEN undef_loads + 1 ELSE undef_loads
    /\ UNCHANGED <<hw, build, callable, g_blake3_cpu_features, probe_runs>>

\* blake3_get_cpu_features: the CPUID / XGETBV queries and their decoding
Probe(t) ==
    /\ thr[t].pc = "probe"
    /\ thr' = [thr EXCEPT ![t] =
                 [@ EXCEPT !.pc = "store",
                           !.get_features = cpu_probe(hw, build),
                           !.probed = TRUE]]
    /\ probe_runs' = probe_runs + 1
    /\ UNCHANGED <<hw, build, callable, g_blake3_cpu_features, undef_loads>>

\* a store that keeps only part of the word
StoredValueTruncated(features) == features \cap {SSE2, SSSE3, SSE41}

\* blake3_get_cpu_features: the store to the cache, and the return
StoredValue(features) == features

Store(t) ==
    /\ thr[t].pc = "store"
    /\ g_blake3_cpu_features' = StoredValue(thr[t].get_features)
    /\ thr' = [thr EXCEPT ![t] =
                 [@ EXCEPT !.pc = "dispatch",
                           !.features = thr[t].get_features,
                           !.stored = TRUE]]
    /\ UNCHANGED <<hw, build, callable, probe_runs, undef_loads>>

\* blake3_get_cpu_features has returned to blake3_get_cpu_features' caller:
\* what each public function does with the value.
DispatchGet(r) ==
    [r EXCEPT !.pc = "done", !.ret_features = r.features]

DispatchCompressInPlace(r, b) ==
    [r EXCEPT !.pc = "done",
              !.calls = Append(@, KernelCall(
                            blake3_compress_in_place_kernel(r.features, b),
                            r.args.in, r.args.counter, 0, 0))]

\* the position blake3_compress_xof returns to
XofReturn(r) == IF r.inner THEN "loop" ELSE "done"

\* blake3_compress_xof, called by the user or from blake3_xof_many's loop
\* with counter r.xof_counter and output pointer out + r.xof_out
DispatchCompressXof(r, b) ==
    LET k == blake3_compress_xof_kernel(r.features, b)
    IN  [r EXCEPT !.pc = XofReturn(r),
                  !.calls = Append(@, KernelCall(k, r.args.in, r.xof_counter,
                                                 r.xof_out, 1)),
                  !.out = [@ EXCEPT ![r.xof_out \div 64] =
                              OutBlock(k, r.args.in, r.xof_counter, 0)],
                  !.i = IF r.inner THEN @ + 1 ELSE @,
                  !.features = IF r.inner THEN r.xof_features ELSE @,
                  !.inner = FALSE]

DispatchXofMany(r, b) ==
    IF blake3_xof_many_delegates(r.features, b)
    THEN [r EXCEPT !.pc = "done",
                   !.calls = Append(@, KernelCall("blake3_xof_many_avx512",
                                 r.args.in, r.args.counter, 0,
                                 r.args.outblocks)),
                   !.out = [j \in OutIndex |->
                              IF j < r.args.outblocks
                              THEN OutBlock("blake3_xof_many_avx512",
                                            r.args.in, r.args.counter, j)
                              ELSE r.out[j]]]
    ELSE [r EXCEPT !.pc = "loop", !.i = 0, !.xof_features = r.features]

DispatchHashMany(r, b) ==
    [r EXCEPT !.pc = "done",
              !.calls = Append(@, KernelCall(
                            blake3_hash_many_kernel(r.features, b),
                            r.args.in, r.args.counter, 0, 0))]

DispatchSimdDegree(r, b) ==
    [r EXCEPT !.pc = "done",
              !.ret_degree = blake3_simd_degree(r.features, b)]

Dispatch(t) ==
    /\ thr[t].pc = "dispatch"
    /\ LET r == thr[t]
       IN  thr' = [thr EXCEPT ![t] =
             IF r.inner THEN DispatchCompressXof(r, build)
             ELSE CASE r.op = "blake3_get_cpu_features" -> DispatchGet(r)
                    [] r.op = "blake3_compress_in_place" ->
                           DispatchCompressInPlace(r, build)
                    [] r.op = "blake3_compress_xof" ->
                           DispatchCompressXof(r, build)
                    [] r.op = "blake3_xof_many" -> DispatchXofMany(r, build)
                    [] r.op = "blake3_hash_many" -> DispatchHashMany(r, build)
                    [] r.op = "blake3_simd_degree" ->
                           DispatchSimdDegree(r, build)]
    /\ UNCHANGED <<hw, build, callable, g_blake3_cpu_features, probe_runs,
                   undef_loads>>

\* a loop that hands every call the starting counter
LoopCounterNotAdvanced(counter, i) == counter

\* the for loop of blake3_xof_many: test i < outblocks, then call
\* blake3_compress_xof(cv, block, block_len, counter + i, flags, out + 64*i)
LoopCounter(counter, i) == Add64(counter, i)

LoopOut(i) == 64 * i

LoopContinues(i, outblocks) == i < outblocks

XofLoop(t) ==
    /\ thr[t].pc = "loop"
    /\ LET r == thr[t]
       IN  thr' = [thr EXCEPT ![t] =
             IF LoopContinues(r.i, r.args.outblocks)
             THEN [r EXCEPT !.pc = IF build.IS_X86 THEN "load" ELSE "dispatch",
                            !.inner = TRUE,
                            !.xof_counter = LoopCounter(r.args.counter, r.i),
                            !.xof_out = LoopOut(r.i)]
             ELSE [r EXCEPT !.pc = "done"]]
    /\ UNCHANGED <<hw, build, callable, g_blake3_cpu_features, probe_runs,
                   undef_loads>>

Next ==
    \E t \in Threads :
        \/ \E o \in Ops : Call(t, o)
        \/ Load(t)
        \/ Probe(t)
        \/ Store(t)
        \/ Dispatch(t)
        \/ XofLoop(t)

(***************************************************************************)
(* Hardware reports, builds and arguments the specifications draw from.    *)
(***************************************************************************)
\* XCR0 bit 0 (x87 state) is always set; leaf 1 ECX bit 0 is SSE3
HwReports ==
    {[max_leaf |-> m, leaf1_ecx |-> c \cup {0}, leaf1_edx |-> d,
      xcr0 |-> x \cup {0}, leaf7_ebx |-> e] :
        m \in {6, 7, 13}, c \in SUBSET {9, 19, 27, 28},
        d \in SUBSET {26}, x \in SUBSET {1, 2, 5, 6, 7},
        e \in SUBSET {5, 16, 31}}

\* reports whose extended state is fully enabled: every CapabilitySet is the
\* probe result of one of them
HwEnabled == {h \in HwReports : h.max_leaf = 7 /\ h.xcr0 = {0, 1, 2, 5, 6, 7}}

HwAvx512 ==
    [max_leaf |-> 13, leaf1_ecx |-> {0, 9, 19, 27, 28}, leaf1_edx |-> {26},
     xcr0 |-> {0, 1, 2, 5, 6, 7}, leaf7_ebx |-> {5, 16, 31}]

\* AVX2 hardware under an OS that has not enabled the extended state
HwAvx2NoOs ==
    [max_leaf |-> 13, leaf1_ecx |-> {0, 9, 19, 28}, leaf1_edx |-> {26},
     xcr0 |-> {0, 1}, leaf7_ebx |-> {5}]

HwBare ==
    [max_leaf |-> 1, leaf1_ecx |-> {0}, leaf1_edx |-> {},
     xcr0 |-> {0}, leaf7_ebx |-> {}]

HwSamples == {HwAvx512, HwAvx2NoOs, HwBare}

Builds ==
    {b \in [IS_X86 : BOOLEAN, AMD64 : BOOLEAN, WIN32 : BOOLEAN,
            NO_AVX512 : BOOLEAN, NO_AVX2 : BOOLEAN, NO_SSE41 : BOOLEAN,
            NO_SSE2 : BOOLEAN, USE_NEON : BOOLEAN] : b.AMD64 => b.IS_X86}

NoToggles(b) == ~b.NO_AVX512 /\ ~b.NO_AVX2 /\ ~b.NO_SSE41 /\ ~b.NO_SSE2

Inputs ==
    {[cv |-> "cv0", block |-> "block0", block_len |-> 64, flags |-> 0],
     [cv |-> "cv1", block |-> "block1", block_len |-> 3, flags |-> 11]}

Counters ==
    {Zero64, <<5, 0, 0, 0>>, <<65535, 0, 0, 0>>,
     <<65534, 65535, 65535, 65535>>}

Args == [in : Inputs, counter : Counters, outblocks : 0..MaxBlocks]

InitWith(HW, B, A, budget, fns) ==
    /\ hw \in HW
    /\ build \in B
    /\ callable = fns
    /\ g_blake3_cpu_features = UNDEFINED
    /\ \E a \in A : thr = [t \in Threads |-> IdleThread(budget[t], a)]
    /\ probe_runs = 0
    /\ undef_loads = 0

\* Threads racing on the cache: thread 1 makes MaxCalls calls, the others one.
Init ==
    InitWith(HwSamples,
             {b \in Builds : b.IS_X86 /\ ~b.USE_NEON /\ NoToggles(b)},
             {a \in Args : a.in.flags = 0 /\ a.counter = <<5, 0, 0, 0>>
                           /\ a.outblocks = 1},
             [t \in Threads |-> IF t = 1 THEN MaxCalls ELSE 1],
             {"blake3_get_cpu_features", "blake3_xof_many"})

Spec == Init /\ [][Next]_vars

\* The probe on every hardware report: one thread, one call.
InitProbe ==
    InitWith(HwReports,
             {b \in Builds : b.IS_X86 /\ ~b.WIN32 /\ ~b.USE_NEON /\ NoToggles(b)},
             {a \in Args : a.in.flags = 0 /\ a.counter = <<5, 0, 0, 0>>
                           /\ a.outblocks = 1},
             [t \in Threads |-> IF t = 1 THEN 1 ELSE 0], Ops)

SpecProbe == InitProbe /\ [][Next]_vars

\* Kernel selection on every CapabilitySet under every build: one thread,
\* one call.
InitDispatch ==
    /\ InitWith(HwEnabled, Builds,
                {a \in Args : a.in.flags = 0 /\ a.counter = <<5, 0, 0, 0>>
                              /\ a.outblocks = 1},
                [t \in Threads |-> IF t = 1 THEN 1 ELSE 0], Ops)
    /\ ~build.IS_X86 => hw = HwAvx512

SpecDispatch == InitDispatch /\ [][Next]_vars

\* blake3_xof_many on every argument: one thread, MaxCalls calls.
InitXof ==
    InitWith(HwSamples,
             {b \in Builds : ~b.NO_AVX2 /\ ~b.NO_SSE2 /\ ~b.USE_NEON},
             Args,
             [t \in Threads |-> IF t = 1 THEN MaxCalls ELSE 0], Ops)

SpecXof == InitXof /\ [][Next]_vars

(***************************************************************************)
(* Vocabulary of the properties.                                           *)
(***************************************************************************)
Avx512Kernels ==
    {"blake3_compress_in_place_avx512", "blake3_compress_xof_avx512",
     "blake3_xof_many_avx512", "blake3_hash_many_avx512"}

Avx2Kernels == {"blake3_hash_many_avx2"}

Sse41Kernels ==
    {"blake3_compress_in_place_sse41", "blake3_compress_xof_sse41",
     "blake3_hash_many_sse41"}

Sse2Kernels ==
    {"blake3_compress_in_place_sse2", "blake3_compress_xof_sse2",
     "blake3_hash_many_sse2"}

PortableKernels ==
    {"blake3_compress_in_place_portable", "blake3_compress_xof_portable",
     "blake3_hash_many_portable"}

\* the kernels thread t has invoked in its current call
KernelsOf(t) == {thr[t].calls[k].kernel : k \in DOMAIN thr[t].calls}

\* thread t has returned from public function o
Returned(t, o) == thr[t].pc = "done" /\ thr[t].op = o

\* the OS has enabled the SSE and AVX register state
OsEnablesAvx == 27 \in hw.leaf1_ecx /\ {1, 2} \subseteq hw.xcr0

\* the OS has enabled the opmask and ZMM register state
OsEnablesZmm == {5, 6, 7} \subseteq hw.xcr0

(***************************************************************************)
(* C1.  When OSXSAVE (leaf 1 ECX bit 27) is clear, or XCR0 lacks bit 1 or  *)
(* bit 2, blake3_get_cpu_features returns none of AVX, AVX2, AVX512F,      *)
(* AVX512VL whatever the raw CPUID bits say; no operation invokes an AVX2  *)
(* or AVX-512 kernel, and blake3_simd_degree returns at most 4.            *)
(***************************************************************************)
C1_OsGating ==
    ~OsEnablesAvx =>
        \A t \in Threads :
            /\ thr[t].pc \in {"dispatch", "loop", "done"} =>
                   thr[t].features \cap {AVX, AVX2, AVX512F, AVX512VL} = {}
            /\ Returned(t, "blake3_get_cpu_features") =>
                   thr[t].ret_features \cap {AVX, AVX2, AVX512F, AVX512VL} = {}
            /\ KernelsOf(t) \cap (Avx2Kernels \cup Avx512Kernels) = {}
            /\ Returned(t, "blake3_simd_degree") => thr[t].ret_degree <= 4

\* hash_many has run on hardware whose raw bits report AVX, AVX2 and AVX-512
\* and whose XCR0 enables everything, but with OSXSAVE clear
C1_Witness ==
    \E t \in Threads :
        /\ Returned(t, "blake3_hash_many")
        /\ 27 \notin hw.leaf1_ecx
        /\ 28 \in hw.leaf1_ecx
        /\ hw.max_leaf >= 7
        /\ {5, 16, 31} \subseteq hw.leaf7_ebx
        /\ {1, 2, 5, 6, 7} \subseteq hw.xcr0
        /\ KernelsOf(t) \subseteq Sse41Kernels \cup Sse2Kernels

(***************************************************************************)
(* C2.  Under every interleaving of the threads' loads, probes and stores, *)
(* every call of blake3_get_cpu_features (by the user or by a dispatching  *)
(* function) returns the probe result of the host hardware: never          *)
(* UNDEFINED, never a partial value.                                       *)
(***************************************************************************)
C2_SameValueEveryCall ==
    \A t \in Threads :
        /\ thr[t].pc = "dispatch" =>
               /\ thr[t].features = cpu_probe(hw, build)
               /\ thr[t].features # UNDEFINED
        /\ Returned(t, "blake3_get_cpu_features") =>
               /\ thr[t].ret_features = cpu_probe(hw, build)
               /\ thr[t].ret_features # UNDEFINED
               /\ thr[t].ret_features \subseteq FeatureBits
               /\ \A u \in Threads :
                      Returned(u, "blake3_get_cpu_features") =>
                          thr[u].ret_features = thr[t].ret_features

\* two calls raced: both loaded UNDEFINED, both probed and stored, both
\* returned
C2_Witness ==
    \E t, u \in Threads :
        /\ t # u
        /\ Returned(t, "blake3_get_cpu_features")
        /\ Returned(u, "blake3_get_cpu_features")
        /\ thr[t].loaded = UNDEFINED /\ thr[t].stored
        /\ thr[u].loaded = UNDEFINED /\ thr[u].stored
        /\ cpu_probe(hw, build) # {SSE2}

(***************************************************************************)
(* C3.  The cache starts as UNDEFINED and always holds UNDEFINED or the    *)
(* probe result of the host; every thread about to store holds that same   *)
(* value; the only change of the cache is UNDEFINED -> probe result; once  *)
(* not UNDEFINED it never changes.                                         *)
(***************************************************************************)
CacheValid ==
    /\ g_blake3_cpu_features \in {UNDEFINED, cpu_probe(hw, build)}
    /\ \A t \in Threads :
           thr[t].pc = "store" => thr[t].get_features = cpu_probe(hw, build)

C3_CacheMonotone ==
    /\ g_blake3_cpu_features = UNDEFINED
    /\ [][/\ CacheValid'
          /\ g_blake3_cpu_features # UNDEFINED =>
                 g_blake3_cpu_features' = g_blake3_cpu_features
          /\ g_blake3_cpu_features' # g_blake3_cpu_features =>
                 /\ g_blake3_cpu_features = UNDEFINED
                 /\ g_blake3_cpu_features' = cpu_probe(hw', build')]_vars

\* a thread that lost the first-use race has stored after the winner
C3_Witness ==
    \E t, u \in Threads :
        /\ t # u
        /\ thr[t].stored /\ thr[t].cache_at_call = UNDEFINED
        /\ thr[u].stored /\ thr[u].cache_at_call = UNDEFINED
        /\ g_blake3_cpu_features = cpu_probe(hw, build)

(***************************************************************************)
(* C4.  No operation invokes a kernel of a tier whose compile-time toggle  *)
(* disables it, whatever the CapabilitySet; with all four toggles set      *)
(* every kernel invoked is the portable one, or NEON for hash_many when    *)
(* NEON is targeted.                                                       *)
(***************************************************************************)
C4_TogglesRespected ==
    \A t \in Threads :
        /\ build.NO_AVX512 => KernelsOf(t) \cap Avx512Kernels = {}
        /\ build.NO_AVX2 => KernelsOf(t) \cap Avx2Kernels = {}
        /\ build.NO_SSE41 => KernelsOf(t) \cap Sse41Kernels = {}
        /\ build.NO_SSE2 => KernelsOf(t) \cap Sse2Kernels = {}
        /\ (build.NO_AVX512 /\ build.NO_AVX2 /\ build.NO_SSE41
                /\ build.NO_SSE2) =>
               KernelsOf(t) \subseteq
                   PortableKernels \cup
                   (IF build.USE_NEON /\ thr[t].op = "blake3_hash_many"
                    THEN {"blake3_hash_many_neon"} ELSE {})

\* hash_many has run with every tier present in the CapabilitySet and every
\* toggle set
C4_Witness ==
    \E t \in Threads :
        /\ Returned(t, "blake3_hash_many")
        /\ thr[t].features = FeatureBits
        /\ build.IS_X86
        /\ build.NO_AVX512 /\ build.NO_AVX2 /\ build.NO_SSE41 /\ build.NO_SSE2
        /\ Len(thr[t].calls) = 1

(***************************************************************************)
(* C5.  blake3_simd_degree returns the lane width of the tier              *)
(* blake3_hash_many selects in the same state: 16 for AVX-512 (which needs *)
(* AVX512F and AVX512VL and AVX-512 not disabled), 8 for AVX2, 4 for       *)
(* SSE4.1, SSE2 and NEON, 1 for portable; never less than 1.               *)
(***************************************************************************)
LaneWidth(kernel) ==
    CASE kernel = "blake3_hash_many_avx512" -> 16
      [] kernel = "blake3_hash_many_avx2" -> 8
      [] kernel = "blake3_hash_many_sse41" -> 4
      [] kernel = "blake3_hash_many_sse2" -> 4
      [] kernel = "blake3_hash_many_neon" -> 4
      [] kernel = "blake3_hash_many_portable" -> 1

C5_DegreeMatchesHashMany ==
    \A t \in Threads :
        Returned(t, "blake3_simd_degree") =>
            /\ thr[t].ret_degree =
                   LaneWidth(blake3_hash_many_kernel(g_blake3_cpu_features,
                                                     build))
            /\ thr[t].ret_degree >= 1
            /\ thr[t].ret_degree = 16 <=>
                   /\ build.IS_X86 /\ ~build.NO_AVX512
                   /\ {AVX512F, AVX512VL} \subseteq g_blake3_cpu_features

\* AVX512VL without AVX512F, AVX2 present: the degree is 8, not 16
C5_Witness ==
    \E t \in Threads :
        /\ Returned(t, "blake3_simd_degree")
        /\ AVX512VL \in g_blake3_cpu_features
        /\ AVX512F \notin g_blake3_cpu_features
        /\ ~build.NO_AVX512
        /\ thr[t].ret_degree = 8

(***************************************************************************)
(* C6.  For N >= 1, when blake3_xof_many does not hand the request to the  *)
(* AVX-512 kernel (AVX512VL absent, a Windows target, AVX-512 disabled, or *)
(* not x86), it calls blake3_compress_xof exactly N times, in order        *)
(* i = 0..N-1, call i with the unchanged cv, block, block_len and flags,   *)
(* counter counter+i modulo 2^64 and output offset 64*i; the N output      *)
(* blocks are those of N single blake3_compress_xof calls.                 *)
(***************************************************************************)
\* c + 1 on 64 bits, limb by limb
Inc64(c) ==
    IF c[1] < 65535 THEN <<c[1] + 1, c[2], c[3], c[4]>>
    ELSE IF c[2] < 65535 THEN <<0, c[2] + 1, c[3], c[4]>>
    ELSE IF c[3] < 65535 THEN <<0, 0, c[3] + 1, c[4]>>
    ELSE IF c[4] < 65535 THEN <<0, 0, 0, c[4] + 1>>
    ELSE <<0, 0, 0, 0>>

XofKernels ==
    {"blake3_compress_xof_avx512", "blake3_compress_xof_sse41",
     "blake3_compress_xof_sse2", "blake3_compress_xof_portable"}

NotDelegated ==
    \/ ~build.IS_X86
    \/ build.WIN32
    \/ build.NO_AVX512
    \/ AVX512VL \notin g_blake3_cpu_features

C6_XofManySequence ==
    \A t \in Threads :
        (/\ Returned(t, "blake3_xof_many")
         /\ thr[t].args.outblocks >= 1
         /\ NotDelegated) =>
            LET a == thr[t].args
                c == thr[t].calls
                single == blake3_compress_xof_kernel(g_blake3_cpu_features,
                                                     build)
            IN  /\ Len(c) = a.outblocks
                /\ \A n \in 1..Len(c) :
                       /\ c[n].kernel \in XofKernels
                       /\ c[n].kernel = single
                       /\ c[n].in = a.in
                       /\ c[n].out_off = 64 * (n - 1)
                       /\ c[n].counter =
                              IF n = 1 THEN a.counter
                              ELSE Inc64(c[n - 1].counter)
                       /\ thr[t].out[n - 1] =
                              OutBlock(single, a.in, c[n].counter, 0)
                /\ \A j \in OutIndex :
                       j >= a.outblocks => thr[t].out[j] = Unwritten

\* three blocks on a Windows build with AVX512VL, the counter wrapping
\* from 2^64 - 1 to 0
C6_Witness ==
    \E t \in Threads :
        /\ Returned(t, "blake3_xof_many")
        /\ thr[t].args.outblocks = 3
        /\ thr[t].args.counter = <<65534, 65535, 65535, 65535>>
        /\ build.IS_X86 /\ build.WIN32 /\ ~build.NO_AVX512
        /\ AVX512VL \in g_blake3_cpu_features
        /\ Len(thr[t].calls) = 3
        /\ thr[t].calls[3].counter = Zero64
        /\ thr[t].calls[3].kernel = "blake3_compress_xof_avx512"

(***************************************************************************)
(* C7.  blake3_xof_many with outblocks = 0 returns at once: it invokes no  *)
(* kernel, writes no output block, does not read the cache, runs no probe  *)
(* and leaves the cache unchanged, also while the cache is UNDEFINED and   *)
(* when AVX512VL is available.                                             *)
(***************************************************************************)
C7_XofManyZero ==
    \A t \in Threads :
        (Returned(t, "blake3_xof_many") /\ thr[t].args.outblocks = 0) =>
            /\ thr[t].calls = <<>>
            /\ \A j \in OutIndex : thr[t].out[j] = Unwritten
            /\ thr[t].loaded = NotLoaded
            /\ ~thr[t].probed
            /\ ~thr[t].stored
            /\ g_blake3_cpu_features = thr[t].cache_at_call

\* the first call of the process, on AVX-512 hardware, in a build that would
\* otherwise use the AVX-512 multi-block kernel
C7_Witness ==
    \E t \in Threads :
        /\ Returned(t, "blake3_xof_many")
        /\ thr[t].args.outblocks = 0
        /\ g_blake3_cpu_features = UNDEFINED
        /\ probe_runs = 0
        /\ hw = HwAvx512
        /\ build.IS_X86 /\ ~build.WIN32 /\ ~build.NO_AVX512

(***************************************************************************)
(* C8.  A call of blake3_get_cpu_features runs the probe and stores to the *)
(* cache if and only if its own load observed UNDEFINED; a call that began *)
(* when the cache was already stored returns the stored value without      *)
(* probing or storing; the probe has never run more often than loads have  *)
(* observed UNDEFINED.                                                     *)
(***************************************************************************)
C8_ProbeIffUndefined ==
    /\ probe_runs <= undef_loads
    /\ \A t \in Threads :
           /\ thr[t].pc \in {"probe", "store"} => thr[t].loaded = UNDEFINED
           /\ (thr[t].pc \in {"dispatch", "loop", "done"}
                   /\ thr[t].loaded # NotLoaded) =>
                  /\ thr[t].probed <=> thr[t].loaded = UNDEFINED
                  /\ thr[t].stored <=> thr[t].loaded = UNDEFINED
           /\ (thr[t].pc \in {"dispatch", "done"}
                   /\ thr[t].loaded # NotLoaded
                   /\ thr[t].cache_at_call # UNDEFINED) =>
                  /\ ~thr[t].probed
                  /\ ~thr[t].stored
                  /\ thr[t].loaded = thr[t].cache_at_call
                  /\ thr[t].features = thr[t].cache_at_call
                  /\ g_blake3_cpu_features = thr[t].cache_at_call
           /\ (Returned(t, "blake3_get_cpu_features")
                   /\ thr[t].cache_at_call # UNDEFINED) =>
                  thr[t].ret_features = thr[t].cache_at_call

\* after two racing probes, a later call has returned the stored value
C8_Witness ==
    \E t \in Threads :
        /\ Returned(t, "blake3_get_cpu_features")
        /\ thr[t].cache_at_call = cpu_probe(hw, build)
        /\ ~thr[t].probed
        /\ probe_runs = 2
        /\ undef_loads = 2

(***************************************************************************)
(* C9.  The probe returns exactly: SSE2 always on a 64-bit target, else    *)
(* iff leaf 1 EDX bit 26; SSSE3 iff ECX bit 9; SSE41 iff ECX bit 19; AVX   *)
(* iff OSXSAVE and (XCR0 & 6) = 6 and ECX bit 28; AVX2 iff OSXSAVE and     *)
(* (XCR0 & 6) = 6 and maximum leaf >= 7 and leaf 7 EBX bit 5; AVX512F iff  *)
(* additionally (XCR0 & 224) = 224 and EBX bit 16; AVX512VL iff            *)
(* additionally (XCR0 & 224) = 224 and EBX bit 31; and nothing else.       *)
(***************************************************************************)
C9_ProbeExact ==
    \A t \in Threads :
        Returned(t, "blake3_get_cpu_features") =>
            LET f == thr[t].ret_features
                leaf7 == OsEnablesAvx /\ hw.max_leaf >= 7
            IN  /\ f \subseteq FeatureBits
                /\ SSE2 \in f <=> (build.AMD64 \/ 26 \in hw.leaf1_edx)
                /\ SSSE3 \in f <=> 9 \in hw.leaf1_ecx
                /\ SSE41 \in f <=> 19 \in hw.leaf1_ecx
                /\ AVX \in f <=> (OsEnablesAvx /\ 28 \in hw.leaf1_ecx)
                /\ AVX2 \in f <=> (leaf7 /\ 5 \in hw.leaf7_ebx)
                /\ AVX512F \in f <=>
                       (leaf7 /\ OsEnablesZmm /\ 16 \in hw.leaf7_ebx)
                /\ AVX512VL \in f <=>
                       (leaf7 /\ OsEnablesZmm /\ 31 \in hw.leaf7_ebx)

\* AVX2 without AVX, AVX512VL without AVX512F, SSE2 on a 32-bit target
C9_Witness ==
    \E t \in Threads :
        /\ Returned(t, "blake3_get_cpu_features")
        /\ ~build.AMD64
        /\ thr[t].ret_features = {SSE2, AVX2, AVX512VL}

(***************************************************************************)
(* C10.  blake3_compress_in_place and blake3_compress_xof each invoke      *)
(* exactly one kernel per call, of the same tier: the first available of   *)
(* AVX-512 (AVX512VL present, AVX-512 not disabled), SSE4.1, SSE2,         *)
(* portable.  AVX, AVX2, SSSE3 and AVX512F play no part, and no AVX2       *)
(* kernel is used.                                                         *)
(***************************************************************************)
SingleBlockTier ==
    IF build.IS_X86 /\ ~build.NO_AVX512
           /\ AVX512VL \in g_blake3_cpu_features THEN "avx512"
    ELSE IF build.IS_X86 /\ ~build.NO_SSE41
           /\ SSE41 \in g_blake3_cpu_features THEN "sse41"
    ELSE IF build.IS_X86 /\ ~build.NO_SSE2
           /\ SSE2 \in g_blake3_cpu_features THEN "sse2"
    ELSE "portable"

C10_SingleBlockChain ==
    \A t \in Threads :
        /\ Returned(t, "blake3_compress_in_place") =>
               /\ Len(thr[t].calls) = 1
               /\ thr[t].calls[1].kernel =
                      "blake3_compress_in_place_" \o SingleBlockTier
        /\ Returned(t, "blake3_compress_xof") =>
               /\ Len(thr[t].calls) = 1
               /\ thr[t].calls[1].kernel =
                      "blake3_compress_xof_" \o SingleBlockTier
        /\ KernelsOf(t) \cap Avx2Kernels # {} =>
               thr[t].op = "blake3_hash_many"

\* AVX, AVX2, SSSE3 and AVX512F present but not AVX512VL: SSE4.1 is used
C10_Witness ==
    \E t \in Threads :
        /\ Returned(t, "blake3_compress_xof")
        /\ g_blake3_cpu_features = FeatureBits \ {AVX512VL}
        /\ ~build.NO_AVX512 /\ ~build.NO_SSE41
        /\ thr[t].calls[1].kernel = "blake3_compress_xof_sse41"

====
